---- MODULE Spec2Model ----
(***************************************************************************)
(* The conversation / tool orchestration core of opencode_rs (src/app.rs,  *)
(* src/session.rs, with the persistence calls of src/db.rs and the reply   *)
(* shape of src/llm/openai_client.rs).                                     *)
(*                                                                         *)
(* App's public methods are the operations.  send_current_session_to_llm,  *)
(* execute_tool_calls_and_resend and resolve_pending_tool_call call each   *)
(* other in tail position only, so one handler run is a chain of steps     *)
(* separated by the awaits on the two collaborators: the Model Gateway     *)
(* (pc = "llm": a request is in flight) and the Tool Executor (pc =        *)
(* "exec": a batch is being executed, one tool per step).  While pc is not *)
(* "idle" the caller is blocked in the await, so no other operation runs.  *)
(*                                                                         *)
(* The store is the two tables of src/db.rs; every message and session     *)
(* carries the readings of the clock it was made under.  The process may   *)
(* end at any step and be started again on the store it left (pc =         *)
(* "started": App::new has returned, main has not entered the key loop).   *)
(***************************************************************************)
EXTENDS Integers, Sequences, FiniteSets, TLC

VARIABLES
    sessions,                   \* App.sessions: session id -> Session
    active_session_id,          \* App.active_session_id
    tool_session_permissions,   \* App.tool_session_permissions
    pending_tool_call_request,  \* App.pending_tool_call_request
    api_key,                    \* config.providers.openai.api_key (Option)
    db_messages,                \* rows of table messages
    db_sessions,                \* rows of table sessions, keyed by id
    next_call_id,               \* the call ids the model has issued so far
    pc,                         \* where the running handler is
    batch,                      \* tool calls execute_tool_calls_and_resend still has to run
    batch_by,                   \* who let the running batch in: the user's decision or the cache
    clock,                      \* what Utc::now() returns
    db_up,                      \* whether a write to the store succeeds
    resend_depth                \* automatic resends the running handler has made

vars == <<sessions, active_session_id, tool_session_permissions,
          pending_tool_call_request, api_key, db_messages, db_sessions,
          next_call_id, pc, batch, batch_by, clock, db_up, resend_depth>>

(***************************************************************************)
(* Bounds of the model.                                                    *)
(***************************************************************************)
MaxSessions == 2    \* sessions the registry may come to hold
MaxMessages == 3    \* messages created before the caller and the model stop
MaxBatch == 2       \* tool calls in one assistant turn

\* Option<T>: None is the empty sequence, Some(x) the sequence <<x>>.
None == <<>>
Some(x) == <<x>>

\* arguments_json of a tool call.
Arguments == {"{}"}


(***************************************************************************)
(* session.rs: the data model.                                             *)
(***************************************************************************)
Author == {"User", "Assistant", "System", "Tool"}

\* ContentPart, a tagged union.
Text(s) == [kind |-> "Text", text |-> s]
ToolRequest(id, name, input) ==
    [kind |-> "ToolRequest", id |-> id, name |-> name, input |-> input]
ToolResult(id, name, output, is_error) ==
    [kind |-> "ToolResult", id |-> id, name |-> name, output |-> output,
     is_error |-> is_error]

\* Message::new: a fresh id, the author, the parts and the time of creation.
Message_new(uuid, author, parts, now) ==
    [id |-> uuid, author |-> author, parts |-> parts, timestamp |-> now]

\* Session::new: no messages; one reading of the clock fills both times.
Session_new(id, now) ==
    [id |-> id, messages |-> <<>>, created_at |-> now, last_activity_at |-> now]

\* Fault: the message is put in front of the others.
Session_add_message_in_front(session, message, now) ==
    [session EXCEPT !.messages = <<message>> \o @, !.last_activity_at = now]

\* Fault: the time of the last activity is left as it was.
Session_add_message_keeping_time(session, message, now) ==
    [session EXCEPT !.messages = Append(@, message)]

\* Session::add_message: push at the end, then read the clock.
Session_add_message(session, message, now) ==
    [session EXCEPT !.messages = Append(@, message), !.last_activity_at = now]

(***************************************************************************)
(* db.rs: what the two tables hold.                                        *)
(***************************************************************************)
\* From<AppAuthor> for DbAuthor and From<DbAuthor> for AppAuthor.
DbAuthor_from(author) ==
    CASE author = "User" -> "User"
      [] author = "Assistant" -> "Assistant"
      [] author = "System" -> "System"
      [] author = "Tool" -> "Tool"

AppAuthor_from(author) ==
    CASE author = "User" -> "User"
      [] author = "Assistant" -> "Assistant"
      [] author = "System" -> "System"
      [] author = "Tool" -> "Tool"

\* From<AppContentPart> for DbContentPart and back, variant by variant.
DbContentPart_from(part) ==
    CASE part.kind = "Text" -> [kind |-> "Text", text |-> part.text]
      [] part.kind = "ToolRequest" ->
            [kind |-> "ToolRequest", id |-> part.id, name |-> part.name,
             input |-> part.input]
      [] part.kind = "ToolResult" ->
            [kind |-> "ToolResult", id |-> part.id, name |-> part.name,
             output |-> part.output, is_error |-> part.is_error]

AppContentPart_from(part) ==
    CASE part.kind = "Text" -> Text(part.text)
      [] part.kind = "ToolRequest" -> ToolRequest(part.id, part.name, part.input)
      [] part.kind = "ToolResult" ->
            ToolResult(part.id, part.name, part.output, part.is_error)

\* DateTime<Utc>::to_rfc3339 prints the seconds, the fraction of a second
\* only when there is one, and the offset "+00:00".  A reading t of the
\* clock counts half seconds: the text holds the codes of the digit of the
\* seconds, of ".5" for an odd reading, and of "+".
to_rfc3339(t) ==
    <<48 + (t \div 2)>> \o (IF t % 2 = 1 THEN <<46, 53>> ELSE <<>>) \o <<43>>

\* DateTime::parse_from_rfc3339 reads the text back.
parse_from_rfc3339(text) ==
    2 * (text[1] - 48) + (IF Len(text) = 4 THEN 1 ELSE 0)

\* The order of SQLite on TEXT: byte by byte, the shorter text first when
\* one is the beginning of the other.
RECURSIVE text_le(_, _)
text_le(a, b) ==
    IF a = <<>> THEN TRUE
    ELSE IF b = <<>> THEN FALSE
    ELSE IF Head(a) # Head(b) THEN Head(a) < Head(b)
    ELSE text_le(Tail(a), Tail(b))

\* save_message: INSERT one row, with the session id beside the message.
\* id is the primary key: a second row with the same id is refused; the
\* session id is a foreign key: a row for a session table sessions does not
\* hold is refused (the caller logs the error).
save_message(rows, session_rows, session_id, message) ==
    IF \/ ~db_up
       \/ \E row \in rows : row.id = message.id
       \/ session_id \notin DOMAIN session_rows
    THEN rows
    ELSE rows \cup {[id |-> message.id, session_id |-> session_id,
                     author |-> DbAuthor_from(message.author),
                     parts |-> [i \in DOMAIN message.parts |->
                                  DbContentPart_from(message.parts[i])],
                     timestamp |-> to_rfc3339(message.timestamp)]}

\* What INSERT OR REPLACE INTO sessions does to table messages: REPLACE
\* deletes the row that holds the id before it inserts the new one, and the
\* foreign key of messages is declared ON DELETE CASCADE, so the rows of the
\* session's messages are deleted with it.
on_delete_cascade(rows, session_rows, session_id) ==
    IF db_up /\ session_id \in DOMAIN session_rows
    THEN { row \in rows : row.session_id # session_id }
    ELSE rows

\* save_session: INSERT OR REPLACE the row of this session id.
save_session(rows, session) ==
    IF ~db_up
    THEN rows
    ELSE (session.id :> [id |-> session.id,
                         created_at |-> to_rfc3339(session.created_at),
                         last_activity_at |-> to_rfc3339(session.last_activity_at)])
         @@ rows

(***************************************************************************)
(* app.rs: the helpers of App.                                             *)
(***************************************************************************)
NoSession == 0

\* The part of the state add_message_to_active_session writes.
Store == [sessions |-> sessions, db_messages |-> db_messages,
          db_sessions |-> db_sessions]

\* The largest of a set of naturals, 0 for the empty set.
Max(S) == IF S = {} THEN 0 ELSE CHOOSE x \in S : \A y \in S : y <= x

\* Uuid::new_v4 for the next message of session sid, which holds n
\* messages: a value no other message has, in the session or in the rows
\* of the store.
new_v4(rows, sid, n) ==
    <<sid, 1 + Max({n} \cup { row.id[2] : row \in { r \in rows :
                                                   r.session_id = sid } })>>

get_active_session ==
    IF active_session_id # NoSession /\ active_session_id \in DOMAIN sessions
    THEN Some(sessions[active_session_id])
    ELSE None

\* Fault: a message whose rows the store refuses is taken off the session
\* again.
add_message_to_active_session_or_nothing(st, author, parts) ==
    IF db_up /\ active_session_id # NoSession
             /\ active_session_id \in DOMAIN st.sessions
    THEN LET sid == active_session_id
             message == Message_new(new_v4(st.db_messages, sid,
                                           Len(st.sessions[sid].messages)),
                                    author, parts, clock)
             session == Session_add_message(st.sessions[sid], message, clock)
         IN  [sessions |-> [st.sessions EXCEPT ![sid] = session],
              db_messages |->
                 on_delete_cascade(save_message(st.db_messages, st.db_sessions,
                                                sid, message),
                                   st.db_sessions, sid),
              db_sessions |-> save_session(st.db_sessions, session)]
    ELSE st

\* Fault: the message is pushed on the first session of the registry.
add_message_to_first_session(st, author, parts) ==
    IF active_session_id # NoSession /\ active_session_id \in DOMAIN st.sessions
    THEN LET sid == CHOOSE x \in DOMAIN st.sessions :
                       \A y \in DOMAIN st.sessions : x <= y
             message == Message_new(new_v4(st.db_messages, sid,
                                           Len(st.sessions[sid].messages)),
                                    author, parts, clock)
             session == Session_add_message(st.sessions[sid], message, clock)
         IN  [sessions |-> [st.sessions EXCEPT ![sid] = session],
              db_messages |->
                 on_delete_cascade(save_message(st.db_messages, st.db_sessions,
                                                sid, message),
                                   st.db_sessions, sid),
              db_sessions |-> save_session(st.db_sessions, session)]
    ELSE st

\* Push a new message on the active session, then save the message and the
\* session row.  Nothing happens without an active session in the registry.
add_message_to_active_session(st, author, parts) ==
    IF active_session_id # NoSession /\ active_session_id \in DOMAIN st.sessions
    THEN LET sid == active_session_id
             message == Message_new(new_v4(st.db_messages, sid,
                                           Len(st.sessions[sid].messages)),
                                    author, parts, clock)
             session == Session_add_message(st.sessions[sid], message, clock)
         IN  [sessions |-> [st.sessions EXCEPT ![sid] = session],
              db_messages |->
                 on_delete_cascade(save_message(st.db_messages, st.db_sessions,
                                                sid, message),
                                   st.db_sessions, sid),
              db_sessions |-> save_session(st.db_sessions, session)]
    ELSE st

add_text_message_to_active_session(st, author, text) ==
    add_message_to_active_session(st, author, <<Text(text)>>)

\* Fault: the cache is not looked at.
check_tool_session_permission_unread(tool_name) == None

\* Fault: a decision cached for the tool in any session is taken.
check_tool_session_permission_any_session(tool_name) ==
    IF \E key \in DOMAIN tool_session_permissions : key[1] = tool_name
    THEN Some(tool_session_permissions[
                CHOOSE key \in DOMAIN tool_session_permissions :
                   key[1] = tool_name])
    ELSE None

\* The cached decision for (tool_name, active session), if any.
check_tool_session_permission(tool_name) ==
    IF active_session_id # NoSession
       /\ <<tool_name, active_session_id>> \in DOMAIN tool_session_permissions
    THEN Some(tool_session_permissions[<<tool_name, active_session_id>>])
    ELSE None

set_tool_session_permission(perms, tool_name, state) ==
    IF active_session_id # NoSession
    THEN (<<tool_name, active_session_id>> :> state) @@ perms
    ELSE perms

\* The writes of one step into the state add_message_to_active_session owns.
Commit(st) ==
    /\ sessions' = st.sessions
    /\ db_messages' = st.db_messages
    /\ db_sessions' = st.db_sessions

(***************************************************************************)
(* The collaborators' answers.                                             *)
(***************************************************************************)
\* The messages created so far.
RECURSIVE SumLen(_, _)
SumLen(f, ids) ==
    IF ids = {} THEN 0
    ELSE LET i == CHOOSE x \in ids : TRUE
         IN  Len(f[i].messages) + SumLen(f, ids \ {i})
Created == SumLen(sessions, DOMAIN sessions)

\* The tool calls of one assistant turn: the model numbers its calls, so
\* the ids of a turn are the next n unused ones; names and arguments are
\* the model's choice.
ToolCallLists(n, names) ==
    { [i \in 1..n |-> [id |-> next_call_id + i - 1, name |-> f[i].name,
                       arguments |-> f[i].arguments]] :
        f \in [1..n -> [name : names, arguments : Arguments]] }

\* tool_calls of a choice: absent, or a list of at most MaxBatch calls.
\* The model asks for tools only while fewer than max_messages - 1 messages
\* were created (the bound of the model).
ToolCallOptions(max_messages, names) ==
    LET longest == IF Created + 1 < max_messages THEN MaxBatch ELSE 0
    IN  {None} \cup { Some(l) : l \in UNION { ToolCallLists(n, names) :
                                               n \in 0..longest } }

\* ChatMessage of a choice: content and tool_calls are both Option.
ChoiceMessages(max_messages, names) ==
    [content : {None, Some(""), Some("hi")},
     tool_calls : ToolCallOptions(max_messages, names)]

\* chat_completion: Err, or Ok with the list of choices (only the first
\* choice is ever read).
Responses(max_messages, names) ==
    {[ok |-> FALSE, choices |-> <<>>], [ok |-> TRUE, choices |-> <<>>]}
    \cup { [ok |-> TRUE, choices |-> <<m>>] :
             m \in ChoiceMessages(max_messages, names) }

\* The names the match of execute_tool_calls_and_resend knows.
RegisteredTools == {"ls", "view", "write"}

\* Fault: the name is not looked at, every tool is run.
run_tool_unchecked_name(tool_name, fs_ok) ==
    IF fs_ok THEN [ok |-> TRUE, text |-> "done"]
             ELSE [ok |-> FALSE, text |-> "failed"]

\* The Tool Executor: the registered tools succeed or fail as the file
\* system and the arguments decide (fs_ok); any other name is an error.
run_tool(tool_name, fs_ok) ==
    CASE tool_name \in RegisteredTools ->
            IF fs_ok THEN [ok |-> TRUE, text |-> "done"]
                     ELSE [ok |-> FALSE, text |-> "failed"]
      [] OTHER -> [ok |-> FALSE, text |-> "Unknown tool"]

(***************************************************************************)
(* Init: the state App::new leaves on a store with no sessions: it creates *)
(* "Default Session", saves it and makes it active.                        *)
(***************************************************************************)
Init ==
    /\ clock = 0
    /\ db_up = TRUE
    /\ resend_depth = 0
    /\ sessions = (1 :> Session_new(1, clock))
    /\ active_session_id = 1
    /\ tool_session_permissions = <<>>
    /\ pending_tool_call_request = None
    /\ api_key \in {None, Some("sk")}
    /\ db_messages = {}
    /\ db_sessions = save_session(<<>>, Session_new(1, clock))
    /\ next_call_id = 1
    /\ pc = "idle"
    /\ batch = <<>>
    /\ batch_by = "nobody"

\* Operations start while the caller is not inside a handler: it awaits
\* the running one.
Idle == pc = "idle"
\* send_current_session_to_llm calls itself at the end of a tool cycle and
\* of a denial: n such calls are on the stack while the handler runs, none
\* once it has returned.
resends_so_far(n) == resend_depth' = IF pc' = "idle" THEN 0 ELSE n
\* The bound of the model: fewer than max_messages messages were created.
Room(max_messages) == Created < max_messages

(***************************************************************************)
(* send_current_session_to_llm, up to the await on the Model Gateway.      *)
(***************************************************************************)
\* Fault: the guard is left out.
decision_pending_unchecked == FALSE

\* The guard of line 115: a decision is awaited.
decision_pending == pending_tool_call_request # None

\* Fault: the configuration is taken to hold a key.
api_key_opt_is_none_overlooked == FALSE

\* The test of line 122: the configuration holds no key for OpenAI.
api_key_opt_is_none == api_key = None

send_current_session_to_llm ==
    /\ UNCHANGED <<clock, db_up>>
    /\ UNCHANGED <<active_session_id, tool_session_permissions,
                   pending_tool_call_request, api_key, next_call_id,
                   batch, batch_by>>
    /\ IF decision_pending
       THEN /\ Commit(add_text_message_to_active_session(Store, "System",
                      "[Info] Tool call pending user permission."))
            /\ pc' = "idle"
       ELSE IF api_key_opt_is_none
       THEN /\ Commit(add_text_message_to_active_session(Store, "System",
                      "Error: OpenAI API key not configured."))
            /\ pc' = "idle"
       ELSE IF get_active_session = None
               \/ get_active_session[1].messages = <<>>
       THEN /\ Commit(Store)
            /\ pc' = "idle"
       ELSE /\ Commit(Store)
            /\ pc' = "llm"

\* advance(): the caller asks for the model's answer.
advance ==
    /\ Idle
    /\ send_current_session_to_llm
    /\ resends_so_far(0)

\* The recursive call at the end of a tool cycle or of a denial.
resend ==
    /\ pc = "send"
    /\ send_current_session_to_llm
    /\ resends_so_far(resend_depth + 1)

(***************************************************************************)
(* send_current_session_to_llm, from the gateway's answer on.              *)
(***************************************************************************)
\* Fault: an empty text is taken over as a part.
assistant_message_parts_with_empty_text(m) ==
    LET text_parts == IF m.content # None
                      THEN <<Text(m.content[1])>> ELSE <<>>
        tc_reqs == IF m.tool_calls # None THEN m.tool_calls[1] ELSE <<>>
    IN  text_parts \o [i \in 1..Len(tc_reqs) |->
                         ToolRequest(tc_reqs[i].id, tc_reqs[i].name,
                                     tc_reqs[i].arguments)]

\* Fault: the text of the answer is not taken over.
assistant_message_parts_without_text(m) ==
    LET tc_reqs == IF m.tool_calls # None THEN m.tool_calls[1] ELSE <<>>
    IN  [i \in 1..Len(tc_reqs) |->
           ToolRequest(tc_reqs[i].id, tc_reqs[i].name, tc_reqs[i].arguments)]

\* The parts of the assistant message: the text if it is not empty, then
\* one ToolRequest per tool call, in the model's order.
assistant_message_parts(m) ==
    LET text_parts == IF m.content # None /\ m.content[1] # ""
                      THEN <<Text(m.content[1])>> ELSE <<>>
        tc_reqs == IF m.tool_calls # None THEN m.tool_calls[1] ELSE <<>>
    IN  text_parts \o [i \in 1..Len(tc_reqs) |->
                         ToolRequest(tc_reqs[i].id, tc_reqs[i].name,
                                     tc_reqs[i].arguments)]

\* Fault: the last request of the turn decides.
last_req_of(actual_tool_calls) == actual_tool_calls[Len(actual_tool_calls)]

\* actual_tool_calls.get(0): the request whose tool decides the turn.
first_req_of(actual_tool_calls) == actual_tool_calls[1]

\* Fault: the tool name is stored in place of the arguments.
PendingToolCall_name_as_arguments(req) ==
    [call_id |-> req.id, tool_name |-> req.name, arguments_json |-> req.name]

PendingToolCall(req) ==
    [call_id |-> req.id, tool_name |-> req.name, arguments_json |-> req.arguments]

\* Fault: a failed request is sent again by the handler itself.
after_gateway_error_retry == "send"

\* After the System message of a failed request the handler returns.
after_gateway_error == "idle"

llm_reply(response) ==
    /\ pc = "llm"
    /\ UNCHANGED <<clock, db_up>>
    /\ UNCHANGED <<active_session_id, tool_session_permissions, api_key>>
    /\ IF ~response.ok
       THEN /\ Commit(add_text_message_to_active_session(Store, "System",
                      "Error: LLM request failed"))
            /\ pc' = after_gateway_error
            /\ UNCHANGED <<pending_tool_call_request, next_call_id, batch, batch_by>>
       ELSE IF response.choices = <<>>
       THEN /\ Commit(add_text_message_to_active_session(Store, "System",
                      "Error: No response choices from LLM."))
            /\ pc' = after_gateway_error
            /\ UNCHANGED <<pending_tool_call_request, next_call_id, batch, batch_by>>
       ELSE LET m == response.choices[1]
                parts == assistant_message_parts(m)
                st1 == IF parts # <<>>
                       THEN add_message_to_active_session(Store, "Assistant", parts)
                       ELSE Store
                actual_tool_calls == IF m.tool_calls # None THEN m.tool_calls[1]
                                     ELSE <<>>
            IN  /\ next_call_id' = next_call_id + Len(actual_tool_calls)
                /\ IF actual_tool_calls = <<>>
                   THEN /\ Commit(st1)
                        /\ pc' = "idle"
                        /\ UNCHANGED <<pending_tool_call_request, batch, batch_by>>
                   ELSE LET first_req == first_req_of(actual_tool_calls)
                            perm == check_tool_session_permission(first_req.name)
                        IN  CASE perm = Some("Allowed") ->
                                   /\ Commit(st1)
                                   /\ pc' = "exec"
                                   /\ batch' = actual_tool_calls
                                   /\ batch_by' = "cache"
                                   /\ UNCHANGED pending_tool_call_request
                              [] perm = Some("Denied") ->
                                   /\ Commit(add_message_to_active_session(st1, "Tool",
                                        <<ToolResult(first_req.id, first_req.name,
                                            "Tool execution denied by session policy.",
                                            TRUE)>>))
                                   /\ pc' = "send"
                                   /\ UNCHANGED <<pending_tool_call_request, batch,
                                                  batch_by>>
                              [] perm = None ->
                                   /\ Commit(st1)
                                   /\ pending_tool_call_request' =
                                        Some(PendingToolCall(first_req))
                                   /\ pc' = "idle"
                                   /\ UNCHANGED <<batch, batch_by>>
    /\ resends_so_far(resend_depth)

(***************************************************************************)
(* execute_tool_calls_and_resend: one turn of its loop per step, the       *)
(* resend after the last one.                                              *)
(***************************************************************************)
\* Fault: the loop ends at the first failed tool.
remaining_after_until_error(tool_calls, tool_run_result) ==
    IF tool_run_result.ok THEN Tail(tool_calls) ELSE <<>>

\* The for loop goes on to the next request whatever the result was.
remaining_after(tool_calls, tool_run_result) == Tail(tool_calls)

execute_tool_call(fs_ok) ==
    /\ pc = "exec"
    /\ UNCHANGED <<clock, db_up>>
    /\ batch # <<>>
    /\ LET tool_call_request == Head(batch)
           tool_run_result == run_tool(tool_call_request.name, fs_ok)
       IN  Commit(add_message_to_active_session(Store, "Tool",
                  <<ToolResult(tool_call_request.id, tool_call_request.name,
                               tool_run_result.text, ~tool_run_result.ok)>>))
    /\ batch' = remaining_after(batch, run_tool(Head(batch).name, fs_ok))
    /\ pc' = IF batch' = <<>> THEN "send" ELSE "exec"
    /\ batch_by' = IF batch' = <<>> THEN "nobody" ELSE batch_by
    /\ UNCHANGED <<active_session_id, tool_session_permissions,
                   pending_tool_call_request, api_key, next_call_id>>
    /\ resends_so_far(resend_depth)

(***************************************************************************)
(* resolve_pending_tool_call(allow, scope_for_allow)                       *)
(***************************************************************************)
Scopes == {None, Some("Once"), Some("Session")}

\* Fault: the slot is read but not emptied.
take_left_in_place(slot) == slot

\* .take(): the slot after the pending call was taken out of it.
take(slot) == None

\* Fault: the scope of the allow is not looked at.
permission_on_allow_any_scope(tool_name, scope_for_allow) ==
    set_tool_session_permission(tool_session_permissions, tool_name, "Allowed")

\* The cache after an allow: written for scope Session only.
permission_on_allow(tool_name, scope_for_allow) ==
    IF scope_for_allow = Some("Session")
    THEN set_tool_session_permission(tool_session_permissions, tool_name,
                                     "Allowed")
    ELSE tool_session_permissions

\* Fault: a denial is stored as the session's policy for the tool.
permission_on_deny_cached(tool_name) ==
    set_tool_session_permission(tool_session_permissions, tool_name, "Denied")

\* The cache after a denial: the write of Denied is commented out.
permission_on_deny(tool_name) == tool_session_permissions

\* Fault: the call is rebuilt under the id of the next call.
single_tool_call_with_next_id(pending_call) ==
    <<[id |-> pending_call.call_id + 1, name |-> pending_call.tool_name,
       arguments |-> pending_call.arguments_json]>>

\* The batch of an allow: the pending call alone, as a tool-call request.
single_tool_call_to_execute(pending_call) ==
    <<[id |-> pending_call.call_id, name |-> pending_call.tool_name,
       arguments |-> pending_call.arguments_json]>>

\* Fault: a call that finds the slot empty leaves a notice.
nothing_to_resolve_noticed ==
    /\ Commit(add_text_message_to_active_session(Store, "System",
               "[Info] No tool call is pending."))
    /\ UNCHANGED <<tool_session_permissions, pending_tool_call_request,
                   pc, batch, batch_by>>

\* The slot is empty: the if-let has no else, the handler returns.
nothing_to_resolve ==
    UNCHANGED <<sessions, db_messages, db_sessions, tool_session_permissions,
                pending_tool_call_request, pc, batch, batch_by>>

resolve_pending_tool_call(allow, scope_for_allow) ==
    /\ Idle
    /\ UNCHANGED <<clock, db_up>>
    /\ UNCHANGED <<active_session_id, api_key, next_call_id>>
    /\ IF pending_tool_call_request = None
       THEN nothing_to_resolve
       ELSE LET pending_call == pending_tool_call_request[1]
            IN  /\ pending_tool_call_request' = take(pending_tool_call_request)
                /\ IF allow
                   THEN /\ tool_session_permissions' =
                             permission_on_allow(pending_call.tool_name,
                                                 scope_for_allow)
                        /\ batch' = single_tool_call_to_execute(pending_call)
                        /\ batch_by' = "user"
                        /\ pc' = "exec"
                        /\ Commit(Store)
                   ELSE /\ Commit(add_message_to_active_session(Store, "Tool",
                               <<ToolResult(pending_call.call_id,
                                            pending_call.tool_name,
                                            "Tool execution denied by user.",
                                            TRUE)>>))
                        /\ tool_session_permissions' =
                             permission_on_deny(pending_call.tool_name)
                        /\ pc' = "send"
                        /\ UNCHANGED <<batch, batch_by>>
    /\ resends_so_far(0)

(***************************************************************************)
(* The other operations of App.                                            *)
(***************************************************************************)
\* submitUserText: add_text_message_to_active_session(Author::User, text).
submit_user_text(text) ==
    /\ Idle
    /\ UNCHANGED <<clock, db_up, resend_depth>>
    /\ Commit(add_text_message_to_active_session(Store, "User", text))
    /\ UNCHANGED <<active_session_id, tool_session_permissions,
                   pending_tool_call_request, api_key, next_call_id, pc,
                   batch, batch_by>>

\* Uuid::new_v4 of Session::new: an id no session has, in the registry or
\* in the store.
new_session_id(registry) == 1 + Max(DOMAIN registry \cup DOMAIN db_sessions)

\* new_session: a fresh session is saved, registered and made active.
new_session ==
    /\ Idle
    /\ UNCHANGED <<clock, db_up, resend_depth>>
    /\ new_session_id(sessions) <= MaxSessions
    /\ LET session_id == new_session_id(sessions)
           session == Session_new(session_id, clock)
       IN  /\ db_sessions' = save_session(db_sessions, session)
           /\ sessions' = (session_id :> session) @@ sessions
           /\ active_session_id' = session_id
    /\ UNCHANGED <<tool_session_permissions, pending_tool_call_request,
                   api_key, db_messages, next_call_id, pc, batch, batch_by>>

\* Fault: every id is taken for one of the registry.
contains_key_unchecked(registry, session_id) == TRUE

\* self.sessions.contains_key(&session_id)
contains_key(registry, session_id) == session_id \in DOMAIN registry

\* Fault: the pending call is dropped for an unknown id as well.
switch_to_unknown_session_clears ==
    /\ pending_tool_call_request' = None
    /\ UNCHANGED active_session_id

\* The else branch: a warning in the log, nothing is written.
switch_to_unknown_session ==
    UNCHANGED <<active_session_id, pending_tool_call_request>>

\* The value switch_session returns.
switch_session_result(session_id) ==
    IF contains_key(sessions, session_id) THEN TRUE ELSE FALSE

\* switch_session: only to a session of the registry.
switch_session(session_id) ==
    /\ Idle
    /\ UNCHANGED <<clock, db_up, resend_depth>>
    /\ IF contains_key(sessions, session_id)
       THEN /\ active_session_id' = session_id
            /\ pending_tool_call_request' = None
       ELSE switch_to_unknown_session
    /\ UNCHANGED <<sessions, tool_session_permissions, api_key, db_messages,
                   db_sessions, next_call_id, pc, batch, batch_by>>

(***************************************************************************)
(* Spec: every operation of App, on the sessions of the registry, with a   *)
(* gateway that may fail and a model that asks for ls.                     *)
(***************************************************************************)
Next ==
    \/ Room(MaxMessages) /\ \E text \in {"hello"} : submit_user_text(text)
    \/ Room(MaxMessages) /\ advance
    \/ resend
    \/ \E response \in Responses(MaxMessages, {"ls"}) : llm_reply(response)
    \/ \E fs_ok \in BOOLEAN : execute_tool_call(fs_ok)
    \/ \E allow \in BOOLEAN, scope \in Scopes :
          resolve_pending_tool_call(allow, scope)
    \/ new_session
    \/ \E session_id \in 1..(MaxSessions + 1) : switch_session(session_id)

Spec == Init /\ [][Next]_vars

(***************************************************************************)
(* One conversation followed further: the caller stays in its session and  *)
(* the gateway always answers with a choice, which carries text or tool    *)
(* calls; the tools are the two of the example prompt.                     *)
(***************************************************************************)
MaxTurnMessages == 5    \* as MaxMessages, for this specification

TurnResponses ==
    { r \in Responses(MaxTurnMessages, {"ls", "write"}) :
        /\ r.ok /\ r.choices # <<>>
        /\ r.choices[1].content # Some("")
        /\ r.choices[1].tool_calls # Some(<<>>)
        /\ (r.choices[1].content = None) # (r.choices[1].tool_calls = None) }

NextTurn ==
    \/ Room(MaxTurnMessages) /\ \E text \in {"hello"} : submit_user_text(text)
    \/ Room(MaxTurnMessages) /\ advance
    \/ resend
    \/ \E response \in TurnResponses : llm_reply(response)
    \/ \E fs_ok \in BOOLEAN : execute_tool_call(fs_ok)
    \/ \E allow \in BOOLEAN, scope \in Scopes :
          resolve_pending_tool_call(allow, scope)

SpecTurn == Init /\ [][NextTurn]_vars

(***************************************************************************)
(* The same conversation under a session policy: the cache is a public     *)
(* field of App and set_tool_session_permission a public method taking     *)
(* either state, so a host may have stored a decision for ls, Allowed or   *)
(* Denied, before the conversation starts.  No handler of App stores       *)
(* Denied itself.  The model asks for ls and for rm, a tool the executor   *)
(* does not know.                                                          *)
(***************************************************************************)
MaxPolicyMessages == 5    \* as MaxMessages, for this specification

ToolPermissionState == {"Allowed", "Denied"}

InitPolicy ==
    /\ clock = 0
    /\ db_up = TRUE
    /\ resend_depth = 0
    /\ sessions = (1 :> Session_new(1, clock))
    /\ active_session_id = 1
    /\ tool_session_permissions \in
          {<<>>} \cup { set_tool_session_permission(<<>>, "ls", state) :
                          state \in ToolPermissionState }
    /\ pending_tool_call_request = None
    /\ api_key = Some("sk")
    /\ db_messages = {}
    /\ db_sessions = save_session(<<>>, Session_new(1, clock))
    /\ next_call_id = 1
    /\ pc = "idle"
    /\ batch = <<>>
    /\ batch_by = "nobody"

PolicyResponses ==
    { r \in Responses(MaxPolicyMessages, {"ls", "rm"}) :
        /\ r.ok /\ r.choices # <<>>
        /\ r.choices[1].content # Some("")
        /\ r.choices[1].tool_calls # Some(<<>>)
        /\ (r.choices[1].content = None) # (r.choices[1].tool_calls = None) }

NextPolicy ==
    \/ Room(MaxPolicyMessages) /\ \E text \in {"hello"} : submit_user_text(text)
    \/ Room(MaxPolicyMessages) /\ advance
    \/ resend
    \/ \E response \in PolicyResponses : llm_reply(response)
    \/ \E fs_ok \in BOOLEAN : execute_tool_call(fs_ok)
    \/ \E allow \in BOOLEAN, scope \in Scopes :
          resolve_pending_tool_call(allow, scope)

SpecPolicy == InitPolicy /\ [][NextPolicy]_vars

(***************************************************************************)
(* Conversations in several sessions: the caller opens and changes         *)
(* sessions and says one thing in each, the gateway always answers with a  *)
(* choice, and the model asks for ls, one call per turn, or ends the       *)
(* exchange with a turn that carries nothing.                              *)
(***************************************************************************)
MaxScopeMessages == 6    \* as MaxMessages, for this specification

ScopeResponses ==
    { r \in Responses(MaxScopeMessages, {"ls"}) :
        /\ r.ok /\ r.choices # <<>>
        /\ r.choices[1].content = None
        /\ r.choices[1].tool_calls # None
              => Len(r.choices[1].tool_calls[1]) = 1 }

\* The caller opens each conversation with one text.
Opening == get_active_session # None /\ get_active_session[1].messages = <<>>

NextScope ==
    \/ Room(MaxScopeMessages) /\ Opening
          /\ \E text \in {"hello"} : submit_user_text(text)
    \/ Room(MaxScopeMessages) /\ advance
    \/ resend
    \/ \E response \in ScopeResponses : llm_reply(response)
    \/ \E fs_ok \in BOOLEAN : execute_tool_call(fs_ok)
    \/ \E allow \in BOOLEAN, scope \in Scopes :
          resolve_pending_tool_call(allow, scope)
    \/ new_session
    \/ \E session_id \in 1..(MaxSessions + 1) : switch_session(session_id)

SpecScope == Init /\ [][NextScope]_vars

(***************************************************************************)
(* db.rs: reading the store back.                                          *)
(***************************************************************************)
\* One row of table messages as a Message.
message_of_row(row) ==
    [id |-> row.id,
     author |-> AppAuthor_from(row.author),
     parts |-> [i \in DOMAIN row.parts |-> AppContentPart_from(row.parts[i])],
     timestamp |-> parse_from_rfc3339(row.timestamp)]

\* ORDER BY timestamp ASC on the text of the column.  SQLite leaves the
\* order of rows with equal keys undefined; rows come out as SQLite walks
\* them, which is the order of their insertion (the number of a message in
\* its session) or, walking backwards, the reverse of it.
TieOrders == {"insertion", "reverse"}

comes_first(row, other, ties) ==
    IF row.timestamp # other.timestamp
    THEN text_le(row.timestamp, other.timestamp)
    ELSE IF ties = "insertion" THEN row.id[2] <= other.id[2]
                               ELSE other.id[2] <= row.id[2]

RECURSIVE order_by_timestamp(_, _)
order_by_timestamp(rows, ties) ==
    IF rows = {} THEN <<>>
    ELSE LET first == CHOOSE row \in rows :
                         \A other \in rows : comes_first(row, other, ties)
         IN  <<first>> \o order_by_timestamp(rows \ {first}, ties)

\* load_messages_for_session: the rows of the session in that order, each
\* read back as a Message.
load_messages_for_session(rows, session_id) ==
    { [i \in DOMAIN order |-> message_of_row(order[i])] :
        order \in { order_by_timestamp({ row \in rows :
                                           row.session_id = session_id }, ties) :
                    ties \in TieOrders } }

\* One row of table sessions as a Session, with the messages loaded for it.
session_of_row(row, messages) ==
    [id |-> row.id, messages |-> messages,
     created_at |-> parse_from_rfc3339(row.created_at),
     last_activity_at |-> parse_from_rfc3339(row.last_activity_at)]

\* load_sessions: one Session per row of table sessions, each with the
\* messages load_messages_for_session returns for it.  App::new inserts
\* them in the registry under their ids.
RECURSIVE load_sessions(_, _, _)
load_sessions(ids, session_rows, message_rows) ==
    IF ids = {} THEN { <<>> }
    ELSE LET id == CHOOSE x \in ids : TRUE
         IN  { (id :> session_of_row(session_rows[id], messages)) @@ others :
                 messages \in load_messages_for_session(message_rows, id),
                 others \in load_sessions(ids \ {id}, session_rows, message_rows) }

\* Fault: any session of the registry is taken.
most_recent_or_any(registry) == DOMAIN registry

\* max_by_key(|s| s.last_activity_at) over the values of the registry: a
\* session no other session is later than; which one among equals is the
\* iteration order of the HashMap.
most_recent(registry) ==
    { id \in DOMAIN registry :
        \A other \in DOMAIN registry :
           registry[other].last_activity_at <= registry[id].last_activity_at }

(***************************************************************************)
(* The process ends, at any point of any handler, and is started again:    *)
(* App::new on the store the old process left.                             *)
(***************************************************************************)
\* Fault: the cache is read back from the old process.
HashMap_kept == tool_session_permissions

\* HashMap::new(): the cache of a new App.
HashMap_new == <<>>

restart ==
    /\ \E loaded \in load_sessions(DOMAIN db_sessions, db_sessions, db_messages) :
          IF DOMAIN loaded = {}
          THEN LET session == Session_new(new_session_id(loaded), clock)
               IN  /\ db_sessions' = save_session(db_sessions, session)
                   /\ sessions' = (session.id :> session)
                   /\ active_session_id' = session.id
          ELSE /\ sessions' = loaded
               /\ active_session_id' \in most_recent(loaded)
               /\ UNCHANGED db_sessions
    /\ tool_session_permissions' = HashMap_new
    /\ pending_tool_call_request' = None
    /\ pc' = "started"
    /\ batch' = <<>>
    /\ batch_by' = "nobody"
    /\ resend_depth' = 0
    /\ UNCHANGED <<api_key, db_messages, next_call_id, clock, db_up>>

\* main, between App::new and the key loop of the terminal: an empty active
\* session is given a first prompt.
main_before_run_loop ==
    /\ pc = "started"
    /\ IF get_active_session = None \/ get_active_session[1].messages = <<>>
       THEN Commit(add_text_message_to_active_session(Store, "User",
                   "List files in the current directory, ..."))
       ELSE Commit(Store)
    /\ pc' = "idle"
    /\ UNCHANGED <<active_session_id, tool_session_permissions,
                   pending_tool_call_request, api_key, next_call_id, batch,
                   batch_by, clock, db_up, resend_depth>>

\* Time passes: the next reading of the clock is later.
MaxClock == 2    \* readings of the clock, in half seconds

tick ==
    /\ clock < MaxClock
    /\ clock' = clock + 1
    /\ UNCHANGED <<sessions, active_session_id, tool_session_permissions,
                   pending_tool_call_request, api_key, db_messages,
                   db_sessions, next_call_id, pc, batch, batch_by, db_up,
                   resend_depth>>

(***************************************************************************)
(* One conversation under a clock, in a process that may be ended and      *)
(* started again at any point; the store takes every write.                *)
(***************************************************************************)
MaxRestartMessages == 3    \* as MaxMessages, for this specification
MaxRestartCalls == 2       \* tool calls the model makes, over all processes

RestartResponses ==
    { r \in Responses(MaxRestartMessages, {"ls"}) :
        /\ r.ok /\ r.choices # <<>>
        /\ r.choices[1].content = None
        /\ r.choices[1].tool_calls # None
              => /\ Len(r.choices[1].tool_calls[1]) = 1
                 /\ next_call_id <= MaxRestartCalls }

NextRestart ==
    \/ Room(MaxRestartMessages) /\ \E text \in {"hello"} : submit_user_text(text)
    \/ Room(MaxRestartMessages) /\ advance
    \/ resend
    \/ \E response \in RestartResponses : llm_reply(response)
    \/ \E fs_ok \in BOOLEAN : execute_tool_call(fs_ok)
    \/ \E allow \in BOOLEAN, scope \in Scopes :
          resolve_pending_tool_call(allow, scope)
    \/ tick
    \/ restart
    \/ main_before_run_loop

SpecRestart == Init /\ [][NextRestart]_vars

(***************************************************************************)
(* The store alone: the messages of one session are written with           *)
(* save_message, one by one, and then read back.  Init draws the session:  *)
(* its messages carry the readings of a clock that never goes back.        *)
(***************************************************************************)
MaxStoredMessages == 2    \* messages of the session that is written

\* What a message can be: an author with parts of its kind.
StoredContents ==
    { <<"User", <<Text("hello")>> >>,
      <<"System", <<Text("Error: LLM request failed")>> >>,
      <<"Assistant", <<ToolRequest(1, "ls", "{}")>> >>,
      <<"Tool", <<ToolResult(1, "ls", "done", FALSE)>> >> }

\* The lists of n messages of session sid, stamped in ascending order.
StoredMessageLists(sid, n) ==
    { [i \in 1..n |-> Message_new(<<sid, i>>, contents[i][1], contents[i][2],
                                  times[i])] :
        contents \in [1..n -> StoredContents],
        times \in { t \in [1..n -> 0..MaxClock] :
                      \A i, j \in 1..n : i <= j => t[i] <= t[j] } }

InitRoundTrip ==
    /\ clock = MaxClock
    /\ db_up = TRUE
    /\ resend_depth = 0
    /\ \E n \in 0..MaxStoredMessages :
          \E messages \in StoredMessageLists(1, n) :
             sessions = (1 :> [Session_new(1, 0) EXCEPT
                                  !.messages = messages,
                                  !.last_activity_at = clock])
    /\ active_session_id = 1
    /\ tool_session_permissions = <<>>
    /\ pending_tool_call_request = None
    /\ api_key = None
    /\ db_messages = {}
    /\ db_sessions = save_session(<<>>, sessions[1])
    /\ next_call_id = 1
    /\ pc = "idle"
    /\ batch = <<>>
    /\ batch_by = "nobody"

\* save_message for the first message of the session the store does not
\* hold yet.
save_next_message ==
    /\ pc = "idle"
    /\ Cardinality(db_messages) < Len(sessions[1].messages)
    /\ db_messages' =
          save_message(db_messages, db_sessions, 1,
                       sessions[1].messages[Cardinality(db_messages) + 1])
    /\ UNCHANGED <<sessions, active_session_id, tool_session_permissions,
                   pending_tool_call_request, api_key, db_sessions,
                   next_call_id, pc, batch, batch_by, clock, db_up,
                   resend_depth>>

\* load_sessions_from_db, once every message is written: the registry is
\* what load_sessions returns.
load_sessions_from_db ==
    /\ pc = "idle"
    /\ Cardinality(db_messages) = Len(sessions[1].messages)
    /\ sessions' \in load_sessions(DOMAIN db_sessions, db_sessions, db_messages)
    /\ pc' = "started"
    /\ UNCHANGED <<active_session_id, tool_session_permissions,
                   pending_tool_call_request, api_key, db_messages,
                   db_sessions, next_call_id, batch, batch_by, clock, db_up,
                   resend_depth>>

NextRoundTrip ==
    \/ save_next_message
    \/ load_sessions_from_db

SpecRoundTrip == InitRoundTrip /\ [][NextRoundTrip]_vars

(***************************************************************************)
(* The registry and the store: sessions are opened, chosen and written to  *)
(* under a clock, the store refuses writes for a while, and the process    *)
(* may be ended and started again.  No request goes to the gateway.        *)
(***************************************************************************)
\* The store stops taking writes, and takes them again.
db_goes_down ==
    /\ db_up
    /\ db_up' = FALSE
    /\ UNCHANGED <<sessions, active_session_id, tool_session_permissions,
                   pending_tool_call_request, api_key, db_messages,
                   db_sessions, next_call_id, pc, batch, batch_by, clock,
                   resend_depth>>

db_comes_back ==
    /\ ~db_up
    /\ db_up' = TRUE
    /\ UNCHANGED <<sessions, active_session_id, tool_session_permissions,
                   pending_tool_call_request, api_key, db_messages,
                   db_sessions, next_call_id, pc, batch, batch_by, clock,
                   resend_depth>>

MaxRegistryMessages == 1    \* as MaxMessages, for this specification

\* App::new on a store with no sessions, which may refuse the first write.
InitRegistry ==
    /\ clock = 0
    /\ db_up \in BOOLEAN
    /\ resend_depth = 0
    /\ sessions = (1 :> Session_new(1, clock))
    /\ active_session_id = 1
    /\ tool_session_permissions = <<>>
    /\ pending_tool_call_request = None
    /\ api_key = None
    /\ db_messages = {}
    /\ db_sessions = save_session(<<>>, Session_new(1, clock))
    /\ next_call_id = 1
    /\ pc = "idle"
    /\ batch = <<>>
    /\ batch_by = "nobody"

NextRegistry ==
    \/ Room(MaxRegistryMessages) /\ \E text \in {"hello"} : submit_user_text(text)
    \/ new_session
    \/ \E session_id \in 1..MaxSessions : switch_session(session_id)
    \/ tick
    \/ db_goes_down
    \/ db_comes_back
    \/ restart
    \/ Room(MaxRegistryMessages) /\ main_before_run_loop

SpecRegistry == InitRegistry /\ [][NextRegistry]_vars

(***************************************************************************)
(* One conversation on a store that refuses writes for a while: the cache  *)
(* may hold a decision for ls from the start, so that turns of several     *)
(* calls run as a batch.                                                   *)
(***************************************************************************)
MaxOutageMessages == 3    \* as MaxMessages, for this specification

OutageResponses ==
    { r \in Responses(MaxOutageMessages, {"ls"}) :
        /\ r.ok /\ r.choices # <<>>
        /\ r.choices[1].content = None }

NextOutage ==
    \/ Room(MaxOutageMessages) /\ Opening
          /\ \E text \in {"hello"} : submit_user_text(text)
    \/ Room(MaxOutageMessages) /\ advance
    \/ resend
    \/ \E response \in OutageResponses : llm_reply(response)
    \/ \E fs_ok \in BOOLEAN : execute_tool_call(fs_ok)
    \/ \E allow \in BOOLEAN, scope \in Scopes :
          resolve_pending_tool_call(allow, scope)
    \/ tick
    \/ db_goes_down
    \/ db_comes_back

SpecOutage == InitPolicy /\ [][NextOutage]_vars

(***************************************************************************)
(* What the claims speak about.                                            *)
(***************************************************************************)
ActiveMessages == sessions[active_session_id].messages

\* The parts of one kind in a message, in order.
PartsOf(message, kind) == SelectSeq(message.parts, LAMBDA p : p.kind = kind)

\* The message is a Tool message with the single part ToolResult for
\* one call.
IsToolMessageFor(message, call_id, tool_name) ==
    /\ message.author = "Tool"
    /\ Len(message.parts) = 1
    /\ message.parts[1].kind = "ToolResult"
    /\ message.parts[1].id = call_id
    /\ message.parts[1].name = tool_name

\* Session sid holds a ToolRequest with this call id before position i.
RequestedBefore(sid, i, call_id) ==
    \E j \in 1..(i - 1) :
       \E k \in 1..Len(sessions[sid].messages[j].parts) :
          LET q == sessions[sid].messages[j].parts[k]
          IN  q.kind = "ToolRequest" /\ q.id = call_id

(***************************************************************************)
(* C1.  Every ToolResult part in a session's message list carries a        *)
(* call_id that appears in a ToolRequest part of an earlier message of the *)
(* same session.  new_session leaves the pending call in place, so a       *)
(* decision taken after it puts the ToolResult into the new session.       *)
(***************************************************************************)
C1_ResultAnswersEarlierRequest ==
    \A sid \in DOMAIN sessions :
       \A i \in 1..Len(sessions[sid].messages) :
          \A k \in 1..Len(sessions[sid].messages[i].parts) :
             LET p == sessions[sid].messages[i].parts[k]
             IN  p.kind = "ToolResult" => RequestedBefore(sid, i, p.id)

(***************************************************************************)
(* C2.  Every dispatch to the Tool Executor is covered by a permission for *)
(* that tool: the call is the pending one the user just allowed, or the    *)
(* cache holds Allowed for (its own tool name, active session).  At        *)
(* pc = "exec" the head of batch is the call being dispatched.  A batch    *)
(* let in by the cache is checked for its first tool only.                 *)
(***************************************************************************)
C2_DispatchIsPermitted ==
    (pc = "exec" /\ batch # <<>>) =>
        \/ batch_by = "user"
        \/ check_tool_session_permission(Head(batch).name) = Some("Allowed")

(***************************************************************************)
(* C3.  The pending slot holds at most one call, and a call is put into it *)
(* only when it is empty.                                                  *)
(***************************************************************************)
C3_OnePendingToolCall ==
    /\ [](Len(pending_tool_call_request) <= 1)
    /\ [][(pending_tool_call_request' # None
           /\ pending_tool_call_request' # pending_tool_call_request)
          => pending_tool_call_request = None]_vars

\* A second call is pending, after the first one was settled.
C3_Witness ==
    /\ pending_tool_call_request # None
    /\ pending_tool_call_request[1].call_id > 1

(***************************************************************************)
(* C4.  The permission cache changes only in a step of                     *)
(* resolve_pending_tool_call(true, Session) taken with a pending call;     *)
(* every other step leaves it as it is.                                    *)
(***************************************************************************)
C4_CacheWrittenBySessionAllowOnly ==
    /\ [][tool_session_permissions' # tool_session_permissions
          => /\ pending_tool_call_request # None
             /\ resolve_pending_tool_call(TRUE, Some("Session"))
             /\ tool_session_permissions' =
                   (<<pending_tool_call_request[1].tool_name, active_session_id>>
                       :> "Allowed") @@ tool_session_permissions]_vars
    /\ [][\A allow \in BOOLEAN, scope \in Scopes :
            (resolve_pending_tool_call(allow, scope)
             /\ ~(allow /\ scope = Some("Session")))
            => tool_session_permissions' = tool_session_permissions]_vars

\* The cache holds an entry, and calls were denied and allowed once too.
C4_Witness ==
    /\ tool_session_permissions # <<>>
    /\ \E sid \in DOMAIN sessions :
          \E i \in 1..Len(sessions[sid].messages) :
             /\ sessions[sid].messages[i].author = "Tool"
             /\ sessions[sid].messages[i].parts[1].is_error

(***************************************************************************)
(* C5.  While a call is pending no request is in flight to the Model       *)
(* Gateway and no batch is being executed: the handler that set the slot   *)
(* has returned, and no step taken while the slot stays set starts a       *)
(* request or a dispatch.                                                  *)
(***************************************************************************)
C5_NoCollaboratorCallWhilePending ==
    pending_tool_call_request # None => pc = "idle"

\* advance was called while the call was pending and was turned away.
C5_Witness ==
    /\ pending_tool_call_request # None
    /\ ActiveMessages # <<>>
    /\ ActiveMessages[Len(ActiveMessages)].author = "System"

(***************************************************************************)
(* C6.  advance() with a pending call appends exactly one System message   *)
(* to the active session and returns: no request to the gateway, no        *)
(* dispatch, the slot, the cache and the other sessions as before.         *)
(***************************************************************************)
C6_AdvanceRejectedWhilePending ==
    [][(pending_tool_call_request # None /\ advance)
       => /\ pc' = "idle"
          /\ pending_tool_call_request' = pending_tool_call_request
          /\ tool_session_permissions' = tool_session_permissions
          /\ batch' = batch
          /\ Len(sessions'[active_session_id].messages) = Len(ActiveMessages) + 1
          /\ SubSeq(sessions'[active_session_id].messages, 1, Len(ActiveMessages))
                = ActiveMessages
          /\ LET m == sessions'[active_session_id].messages[Len(ActiveMessages) + 1]
             IN  m.author = "System" /\ Len(m.parts) = 1 /\ m.parts[1].kind = "Text"
          /\ \A sid \in DOMAIN sessions \ {active_session_id} :
                sessions'[sid] = sessions[sid]]_vars

\* The notice is the last message of the active session, the call still
\* pending, and the request it answers is in this very session.
C6_Witness ==
    /\ pending_tool_call_request # None
    /\ Len(ActiveMessages) >= 3
    /\ ActiveMessages[Len(ActiveMessages)].author = "System"
    /\ ActiveMessages[Len(ActiveMessages) - 1].author = "Assistant"

(***************************************************************************)
(* C7.  Whenever the active session id changes, the pending slot is empty  *)
(* afterwards and no message is recorded for the abandoned call.           *)
(* new_session changes the id and leaves the slot as it is.                *)
(***************************************************************************)
C7_SessionChangeDropsPending ==
    [][active_session_id' # active_session_id
       => /\ pending_tool_call_request' = None
          /\ \A sid \in DOMAIN sessions : sessions'[sid] = sessions[sid]]_vars

(***************************************************************************)
(* The assistant turn a step of llm_reply has just recorded, and what a    *)
(* step appended to the active session.                                    *)
(***************************************************************************)
Appended ==
    SubSeq(ActiveMessages', Len(ActiveMessages) + 1, Len(ActiveMessages'))

KeepsEarlierMessages ==
    /\ Len(ActiveMessages') >= Len(ActiveMessages)
    /\ SubSeq(ActiveMessages', 1, Len(ActiveMessages)) = ActiveMessages

TurnRequests ==
    IF pc = "llm" /\ Appended # <<>> /\ Appended[1].author = "Assistant"
    THEN PartsOf(Appended[1], "ToolRequest")
    ELSE <<>>

NamesOf(requests) == [i \in 1..Len(requests) |-> requests[i].name]

\* The batch holds exactly these requests, in this order.
BatchIs(tool_calls, requests) ==
    /\ Len(tool_calls) = Len(requests)
    /\ \A i \in 1..Len(requests) :
          /\ tool_calls[i].id = requests[i].id
          /\ tool_calls[i].name = requests[i].name
          /\ tool_calls[i].arguments = requests[i].input

Cached(tool_name, state) ==
    /\ <<tool_name, active_session_id>> \in DOMAIN tool_session_permissions
    /\ tool_session_permissions[<<tool_name, active_session_id>>] = state

Uncached(tool_name) ==
    <<tool_name, active_session_id>> \notin DOMAIN tool_session_permissions

\* This step dispatched the head of batch and appended its Tool message,
\* one message with one ToolResult.
RanHeadOfBatch ==
    /\ KeepsEarlierMessages
    /\ Len(Appended) = 1
    /\ IsToolMessageFor(Appended[1], Head(batch).id, Head(batch).name)
    /\ batch' = Tail(batch)

(***************************************************************************)
(* C8 as stated.  With Allowed cached for (write, active session),         *)
(* whatever is cached for ls, a turn [ls, write] is executed as a batch.   *)
(* The code looks at the first request's tool, ls.                         *)
(***************************************************************************)
C8_AllowedWriteRunsLsThenWrite ==
    [][(NamesOf(TurnRequests) = <<"ls", "write">> /\ Cached("write", "Allowed"))
       => (pc' = "exec" /\ BatchIs(batch', TurnRequests))]_vars

(***************************************************************************)
(* C8, amended.  With Allowed cached for (ls, active session), the tool of *)
(* the first request, whatever is cached for write, a turn [ls, write] is  *)
(* executed whole: ls runs and gets its Tool message, then write runs and  *)
(* gets its own, and then the session is sent to the model once.           *)
(***************************************************************************)
C8_AllowedLsRunsLsThenWrite ==
    /\ [][(NamesOf(TurnRequests) = <<"ls", "write">> /\ Cached("ls", "Allowed"))
          => /\ pc' = "exec" /\ batch_by' = "cache"
             /\ BatchIs(batch', TurnRequests)
             /\ pending_tool_call_request' = None]_vars
    /\ [][(pc = "exec" /\ batch_by = "cache"
           /\ NamesOf(batch) = <<"ls", "write">>)
          => (RanHeadOfBatch /\ pc' = "exec")]_vars
    /\ [][(pc = "exec" /\ batch_by = "cache" /\ NamesOf(batch) = <<"write">>)
          => (RanHeadOfBatch /\ pc' = "send")]_vars
    /\ [][pc = "send" => (pc' = "llm" /\ sessions' = sessions)]_vars

\* Both results are recorded behind the turn [ls, write], in that order,
\* and the resend is due.
C8_Witness ==
    /\ pc = "send"
    /\ Len(ActiveMessages) >= 3
    /\ LET n == Len(ActiveMessages)
           requests == PartsOf(ActiveMessages[n - 2], "ToolRequest")
       IN  /\ ActiveMessages[n - 2].author = "Assistant"
           /\ NamesOf(requests) = <<"ls", "write">>
           /\ IsToolMessageFor(ActiveMessages[n - 1], requests[1].id, "ls")
           /\ IsToolMessageFor(ActiveMessages[n], requests[2].id, "write")

(***************************************************************************)
(* C9.  When the first request's tool is cached Allowed, the whole turn    *)
(* becomes the batch, in list order; every step of the batch dispatches    *)
(* its head and appends one Tool message holding that one result; the      *)
(* resend comes after the last request only, and once.                     *)
(***************************************************************************)
C9_AllowedBatchRunsInOrder ==
    /\ [][(TurnRequests # <<>> /\ Cached(TurnRequests[1].name, "Allowed"))
          => /\ pc' = "exec"
             /\ BatchIs(batch', TurnRequests)
             /\ Len(Appended) = 1]_vars
    /\ [][pc = "exec"
          => /\ RanHeadOfBatch
             /\ pc' = (IF Len(batch) = 1 THEN "send" ELSE "exec")]_vars
    /\ [][(pc = "exec" /\ Len(batch) > 1)
          => (pc' = "exec" /\ pending_tool_call_request' = None)]_vars
    /\ [][pc = "send"
          => (pc' = "llm" /\ batch' = <<>> /\ sessions' = sessions)]_vars

\* A batch of two let in by the cache has run, the second tool after a
\* failure of the first.
C9_Witness ==
    /\ pc = "send"
    /\ Len(ActiveMessages) >= 3
    /\ LET n == Len(ActiveMessages)
           requests == PartsOf(ActiveMessages[n - 2], "ToolRequest")
       IN  /\ ActiveMessages[n - 2].author = "Assistant"
           /\ Len(requests) = 2
           /\ IsToolMessageFor(ActiveMessages[n - 1], requests[1].id,
                               requests[1].name)
           /\ ActiveMessages[n - 1].parts[1].is_error
           /\ IsToolMessageFor(ActiveMessages[n], requests[2].id,
                               requests[2].name)

(***************************************************************************)
(* C10.  When the first request's tool has no cached decision, the slot    *)
(* takes the first request's call id, tool name and arguments, the handler *)
(* returns, and only the assistant message was appended: no tool runs and  *)
(* no Tool message is written for any request of the turn.                 *)
(***************************************************************************)
C10_UncachedFirstRequestIsParked ==
    [][(TurnRequests # <<>> /\ Uncached(TurnRequests[1].name))
       => /\ pending_tool_call_request' =
                Some([call_id |-> TurnRequests[1].id,
                      tool_name |-> TurnRequests[1].name,
                      arguments_json |-> TurnRequests[1].input])
          /\ pc' = "idle"
          /\ batch' = batch
          /\ KeepsEarlierMessages
          /\ Len(Appended) = 1]_vars

\* A turn of two requests is parked on its first one, while the tool of
\* the second one is cached Allowed.
C10_Witness ==
    /\ pc = "idle"
    /\ pending_tool_call_request # None
    /\ ActiveMessages # <<>>
    /\ LET requests == PartsOf(ActiveMessages[Len(ActiveMessages)], "ToolRequest")
       IN  /\ Len(requests) = 2
           /\ pending_tool_call_request[1].call_id = requests[1].id
           /\ Cached(requests[2].name, "Allowed")

(***************************************************************************)
(* C11.  When the first request's tool is cached Denied for the active     *)
(* session, the step that takes the model's answer appends the assistant   *)
(* message and one Tool message, for the first request only, with its call *)
(* id and is_error = TRUE; no tool is dispatched, no call becomes pending, *)
(* and the session is sent to the model again.                             *)
(***************************************************************************)
C11_DeniedFirstRequestIsAnswered ==
    /\ [][(TurnRequests # <<>> /\ Cached(TurnRequests[1].name, "Denied"))
          => /\ KeepsEarlierMessages
             /\ Len(Appended) = 2
             /\ IsToolMessageFor(Appended[2], TurnRequests[1].id,
                                 TurnRequests[1].name)
             /\ Appended[2].parts[1].is_error
             /\ pc' = "send"
             /\ batch' = <<>>
             /\ pending_tool_call_request' = None]_vars
    /\ [][(pc = "send" /\ Cached("ls", "Denied"))
          => (pc' = "llm" /\ sessions' = sessions)]_vars

\* A turn of two requests was answered by the policy for its first one,
\* and the resend is due.
C11_Witness ==
    /\ pc = "send"
    /\ Len(ActiveMessages) >= 2
    /\ LET n == Len(ActiveMessages)
           requests == PartsOf(ActiveMessages[n - 1], "ToolRequest")
       IN  /\ ActiveMessages[n - 1].author = "Assistant"
           /\ Len(requests) = 2
           /\ Cached(requests[1].name, "Denied")
           /\ IsToolMessageFor(ActiveMessages[n], requests[1].id,
                               requests[1].name)
           /\ ActiveMessages[n].parts[1].output =
                 "Tool execution denied by session policy."

(***************************************************************************)
(* C12.  resolve_pending_tool_call(true, Once) with a pending call empties *)
(* the slot, leaves the cache as it is and hands exactly that call to the  *)
(* executor; the call is dispatched and gets one Tool message with its     *)
(* call id; then the session is sent to the model once.                    *)
(***************************************************************************)
C12_AllowOnceRunsThePendingCall ==
    /\ [][(pending_tool_call_request # None
           /\ resolve_pending_tool_call(TRUE, Some("Once")))
          => /\ pc' = "exec" /\ batch_by' = "user"
             /\ Len(batch') = 1
             /\ batch'[1].id = pending_tool_call_request[1].call_id
             /\ batch'[1].name = pending_tool_call_request[1].tool_name
             /\ batch'[1].arguments = pending_tool_call_request[1].arguments_json
             /\ tool_session_permissions' = tool_session_permissions
             /\ pending_tool_call_request' = None
             /\ sessions' = sessions]_vars
    /\ [][(pc = "exec" /\ batch_by = "user")
          => /\ Len(batch) = 1
             /\ RanHeadOfBatch
             /\ pc' = "send"
             /\ tool_session_permissions' = tool_session_permissions
             /\ pending_tool_call_request' = None]_vars
    /\ [][(pc = "send" /\ batch_by = "nobody")
          => /\ pc' = "llm"
             /\ UNCHANGED <<sessions, tool_session_permissions,
                            pending_tool_call_request>>]_vars

\* The call allowed once has run: its result follows its request, the
\* cache is empty, the slot too, and the resend is due.
C12_Witness ==
    /\ pc = "send"
    /\ tool_session_permissions = <<>>
    /\ pending_tool_call_request = None
    /\ Len(ActiveMessages) >= 2
    /\ LET n == Len(ActiveMessages)
           requests == PartsOf(ActiveMessages[n - 1], "ToolRequest")
       IN  /\ requests # <<>>
           /\ IsToolMessageFor(ActiveMessages[n], requests[1].id,
                               requests[1].name)
           /\ ~ActiveMessages[n].parts[1].is_error

(***************************************************************************)
(* C13.  resolve_pending_tool_call(false, any scope) with a pending call   *)
(* dispatches nothing, appends one Tool message whose ToolResult has the   *)
(* pending call id and is_error = TRUE, writes nothing into the cache,     *)
(* empties the slot and sends the session to the model again; the tool has *)
(* no cached decision afterwards, so the next turn that asks for it first  *)
(* becomes pending again.                                                  *)
(***************************************************************************)
C13_DenyAnswersAndKeepsNoPolicy ==
    /\ [][\A scope \in Scopes :
            (pending_tool_call_request # None
             /\ resolve_pending_tool_call(FALSE, scope))
            => LET pending_call == pending_tool_call_request[1]
               IN  /\ KeepsEarlierMessages
                   /\ Len(Appended) = 1
                   /\ IsToolMessageFor(Appended[1], pending_call.call_id,
                                       pending_call.tool_name)
                   /\ Appended[1].parts[1].is_error
                   /\ tool_session_permissions' = tool_session_permissions
                   /\ <<pending_call.tool_name, active_session_id>>
                         \notin DOMAIN tool_session_permissions'
                   /\ pending_tool_call_request' = None
                   /\ pc' = "send"
                   /\ batch' = <<>>]_vars
    /\ [][(pc = "send" /\ batch = <<>>) => pc' = "llm"]_vars
    /\ [][(TurnRequests # <<>> /\ Uncached(TurnRequests[1].name))
          => (pending_tool_call_request' # None /\ pc' = "idle")]_vars

\* The tool denied before is asked for again and is pending again.
C13_Witness ==
    /\ pending_tool_call_request # None
    /\ \E i \in 1..Len(ActiveMessages) :
          /\ ActiveMessages[i].author = "Tool"
          /\ ActiveMessages[i].parts[1].output = "Tool execution denied by user."
          /\ ActiveMessages[i].parts[1].name =
                pending_tool_call_request[1].tool_name
          /\ ActiveMessages[i].parts[1].id <
                pending_tool_call_request[1].call_id

(***************************************************************************)
(* C14.  resolve_pending_tool_call with an empty slot changes nothing,     *)
(* whatever allow and scope are: no message, no dispatch, no request to    *)
(* the model, the cache, the slot and the active session as before.        *)
(***************************************************************************)
C14_ResolveWithoutPendingIsNoOp ==
    [][\A allow \in BOOLEAN, scope \in Scopes :
         (pending_tool_call_request = None
          /\ resolve_pending_tool_call(allow, scope))
         => UNCHANGED vars]_vars

\* A first decision was taken and its handler has returned: a second call
\* finds the slot empty.
C14_Witness ==
    /\ pc = "idle"
    /\ pending_tool_call_request = None
    /\ ENABLED resolve_pending_tool_call(TRUE, Some("Session"))
    /\ \E i \in 1..Len(ActiveMessages) :
          /\ ActiveMessages[i].author = "Tool"
          /\ ActiveMessages[i].parts[1].output = "Tool execution denied by user."

(***************************************************************************)
(* C15.  An allow for the session stores Allowed for (tool, active         *)
(* session) and no entry is ever removed or changed, so every later turn   *)
(* of that session whose first request names the tool is executed without  *)
(* a pending call.  An allow once stores nothing: the tool has no decision *)
(* afterwards and the next turn that names it first becomes pending.  A    *)
(* turn is let in by the cache only on an entry for the session that is    *)
(* active: an entry for another session leaves the call pending.           *)
(***************************************************************************)
C15_SessionScopeHoldsInItsSessionOnly ==
    /\ [][(pending_tool_call_request # None
           /\ resolve_pending_tool_call(TRUE, Some("Session")))
          => LET key == <<pending_tool_call_request[1].tool_name,
                          active_session_id>>
             IN  /\ key \in DOMAIN tool_session_permissions'
                 /\ tool_session_permissions'[key] = "Allowed"]_vars
    /\ [][\A key \in DOMAIN tool_session_permissions :
            /\ key \in DOMAIN tool_session_permissions'
            /\ tool_session_permissions'[key] = tool_session_permissions[key]]_vars
    /\ [][(TurnRequests # <<>> /\ Cached(TurnRequests[1].name, "Allowed"))
          => (pc' = "exec" /\ pending_tool_call_request' = None)]_vars
    /\ [][(pending_tool_call_request # None
           /\ resolve_pending_tool_call(TRUE, Some("Once")))
          => /\ tool_session_permissions' = tool_session_permissions
             /\ <<pending_tool_call_request[1].tool_name, active_session_id>>
                   \notin DOMAIN tool_session_permissions']_vars
    /\ [][(TurnRequests # <<>> /\ ~Cached(TurnRequests[1].name, "Allowed"))
          => /\ pc' = "idle"
             /\ batch' = <<>>
             /\ pending_tool_call_request' # None
             /\ pending_tool_call_request'[1].call_id = TurnRequests[1].id]_vars

\* ls is allowed for session 1; asked for in session 2, it is pending.
C15_Witness ==
    /\ active_session_id = 2
    /\ <<"ls", 1>> \in DOMAIN tool_session_permissions
    /\ tool_session_permissions[<<"ls", 1>>] = "Allowed"
    /\ pending_tool_call_request # None
    /\ pending_tool_call_request[1].tool_name = "ls"
    /\ ActiveMessages # <<>>
    /\ LET requests == PartsOf(ActiveMessages[Len(ActiveMessages)],
                               "ToolRequest")
       IN  /\ requests # <<>>
           /\ requests[1].id = pending_tool_call_request[1].call_id

(***************************************************************************)
(* C16.  In a fresh App, whose one session holds the user's text and       *)
(* nothing else, advance() sends the session to the model; when the answer *)
(* carries non-empty text and no tool calls, the session ends as User      *)
(* message then Assistant message with that text, no call is pending and   *)
(* the handler returns without a second request.                           *)
(***************************************************************************)
FirstTurn ==
    /\ DOMAIN sessions = {1}
    /\ Len(ActiveMessages) = 1
    /\ ActiveMessages[1].author = "User"
    /\ pending_tool_call_request = None

C16_TextAnswerEndsTheTurn ==
    /\ [][(FirstTurn /\ api_key # None /\ advance)
          => (pc' = "llm" /\ sessions' = sessions)]_vars
    /\ [][\A response \in Responses(MaxMessages, {"ls"}) :
            (/\ FirstTurn
             /\ response.ok /\ response.choices # <<>>
             /\ response.choices[1].content \notin {None, Some("")}
             /\ response.choices[1].tool_calls \in {None, Some(<<>>)}
             /\ llm_reply(response))
            => /\ Len(ActiveMessages') = 2
               /\ ActiveMessages'[1] = ActiveMessages[1]
               /\ ActiveMessages'[2].author = "Assistant"
               /\ ActiveMessages'[2].parts =
                     <<Text(response.choices[1].content[1])>>
               /\ pending_tool_call_request' = None
               /\ tool_session_permissions' = tool_session_permissions
               /\ pc' = "idle"]_vars

\* The first exchange is over: User, Assistant, nothing pending.
C16_Witness ==
    /\ pc = "idle"
    /\ DOMAIN sessions = {1}
    /\ pending_tool_call_request = None
    /\ Len(ActiveMessages) = 2
    /\ ActiveMessages[1].author = "User"
    /\ ActiveMessages[2].author = "Assistant"
    /\ ActiveMessages[2].parts = <<Text("hi")>>

(***************************************************************************)
(* C17.  advance() with no pending call and no active session, or an       *)
(* active session without messages, changes nothing: no message in any     *)
(* session, no request to the model, the slot and the cache as before.     *)
(* The code looks for the API key before it looks at the session: without  *)
(* a key the empty session gets a System message.                          *)
(***************************************************************************)
C17_AdvanceOnNothingIsNoOp ==
    [][(/\ pending_tool_call_request = None
        /\ (get_active_session = None \/ get_active_session[1].messages = <<>>)
        /\ advance)
       => /\ sessions' = sessions
          /\ pc' = "idle"
          /\ pending_tool_call_request' = pending_tool_call_request
          /\ tool_session_permissions' = tool_session_permissions]_vars

(***************************************************************************)
(* C18.  When the request to the Model Gateway fails, or succeeds with no  *)
(* choice, exactly one System message is appended to the active session    *)
(* and the handler returns: the earlier messages, the other sessions, the  *)
(* slot and the cache stay as they are, and no request follows by itself.  *)
(* An advance() called afterwards goes to the gateway again.               *)
(***************************************************************************)
C18_GatewayErrorIsReportedOnce ==
    /\ [][\A response \in Responses(MaxMessages, {"ls"}) :
            ((~response.ok \/ response.choices = <<>>) /\ llm_reply(response))
            => /\ KeepsEarlierMessages
               /\ Len(Appended) = 1
               /\ Appended[1].author = "System"
               /\ \A sid \in DOMAIN sessions \ {active_session_id} :
                     sessions'[sid] = sessions[sid]
               /\ pending_tool_call_request' = pending_tool_call_request
               /\ tool_session_permissions' = tool_session_permissions
               /\ batch' = batch
               /\ pc' = "idle"]_vars
    /\ [][(/\ ActiveMessages # <<>>
           /\ ActiveMessages[Len(ActiveMessages)].parts[1] \in
                 {Text("Error: LLM request failed"),
                  Text("Error: No response choices from LLM.")}
           /\ pending_tool_call_request = None
           /\ advance)
          => (pc' = "llm" /\ sessions' = sessions)]_vars

\* The failure was reported, and the request of a later advance() is in
\* flight.
C18_Witness ==
    /\ pc = "llm"
    /\ ActiveMessages # <<>>
    /\ ActiveMessages[Len(ActiveMessages)].author = "System"
    /\ ActiveMessages[Len(ActiveMessages)].parts[1] \in
          {Text("Error: LLM request failed"),
           Text("Error: No response choices from LLM.")}

(***************************************************************************)
(* C19.  When the chosen answer carries no text, or an empty one, and no   *)
(* tool calls, no Assistant message is appended, no request follows, and   *)
(* every session and the store are as before the call.                     *)
(***************************************************************************)
C19_EmptyAnswerIsDropped ==
    [][\A response \in Responses(MaxMessages, {"ls"}) :
         (/\ response.ok /\ response.choices # <<>>
          /\ response.choices[1].content \in {None, Some("")}
          /\ response.choices[1].tool_calls \in {None, Some(<<>>)}
          /\ llm_reply(response))
         => /\ sessions' = sessions
            /\ db_messages' = db_messages
            /\ pending_tool_call_request' = pending_tool_call_request
            /\ batch' = batch
            /\ pc' = "idle"]_vars

\* The handler has returned and the result of the tool is still the last
\* message: the answer to the resend carried nothing.
C19_Witness ==
    /\ pc = "idle"
    /\ pending_tool_call_request = None
    /\ ActiveMessages # <<>>
    /\ ActiveMessages[Len(ActiveMessages)].author = "Tool"

(***************************************************************************)
(* C20.  In the execution of a batch, a request for a tool the executor    *)
(* does not know, or whose run fails, gets a Tool message with its call id *)
(* and is_error = TRUE; the loop goes on with the next request, which is   *)
(* dispatched and answered in its turn, and the session is sent to the     *)
(* model after the last one.                                               *)
(***************************************************************************)
C20_FailedToolDoesNotEndTheBatch ==
    /\ [][\A fs_ok \in BOOLEAN :
            (/\ pc = "exec"
             /\ (Head(batch).name \notin RegisteredTools \/ ~fs_ok)
             /\ execute_tool_call(fs_ok))
            => /\ RanHeadOfBatch
               /\ Appended[1].parts[1].is_error
               /\ Head(batch).name \notin RegisteredTools
                     => Appended[1].parts[1].output = "Unknown tool"
               /\ pc' = (IF Len(batch) = 1 THEN "send" ELSE "exec")
               /\ (Len(batch) > 1 => ENABLED execute_tool_call(TRUE))']_vars
    /\ [][(pc = "send" /\ ActiveMessages # <<>>
           /\ ActiveMessages[Len(ActiveMessages)].author = "Tool"
           /\ ActiveMessages[Len(ActiveMessages)].parts[1].is_error)
          => pc' = "llm"]_vars

\* rm, which the executor does not know, was followed in its batch by ls,
\* which failed; both are answered and the resend is due.
C20_Witness ==
    /\ pc = "send"
    /\ Len(ActiveMessages) >= 3
    /\ LET n == Len(ActiveMessages)
           requests == PartsOf(ActiveMessages[n - 2], "ToolRequest")
       IN  /\ NamesOf(requests) = <<"rm", "ls">>
           /\ IsToolMessageFor(ActiveMessages[n - 1], requests[1].id, "rm")
           /\ ActiveMessages[n - 1].parts[1].output = "Unknown tool"
           /\ ActiveMessages[n - 1].parts[1].is_error
           /\ IsToolMessageFor(ActiveMessages[n], requests[2].id, "ls")
           /\ ActiveMessages[n].parts[1].is_error


(***************************************************************************)
(* C21.  A guard bounds the automatic resends of one advance() or          *)
(* resolve_pending_tool_call: the handler returns even when the model      *)
(* answers every turn with tool calls whose first tool is cached.          *)
(* send_current_session_to_llm has no such guard: it calls itself after    *)
(* every batch and every cached denial, as often as the model asks.  The   *)
(* statement is written for a guard of one resend; a guard of n resends    *)
(* is passed in the same way after n + 1 tool turns.                       *)
(***************************************************************************)
C21_ResendsAreCapped == resend_depth <= 1

(***************************************************************************)
(* C22.  Under a clock that never goes back, the messages of a session,    *)
(* saved one by one and loaded again, are the list the session holds: the  *)
(* same messages in the same order, with their ids, authors, parts and     *)
(* timestamps.  Two messages stamped by the same reading of the clock come *)
(* back in an order SQLite chooses.                                        *)
(***************************************************************************)
C22_ReloadGivesTheSessionsList ==
    [][load_sessions_from_db
       => \A sid \in DOMAIN sessions :
             /\ sid \in DOMAIN sessions'
             /\ sessions'[sid].messages = sessions[sid].messages]_vars

\* s is t, or t without its last element.
PrefixMissingAtMostLast(s, t) ==
    /\ Len(t) - 1 <= Len(s)
    /\ Len(s) <= Len(t)
    /\ \A i \in 1..Len(s) : s[i] = t[i]

(***************************************************************************)
(* C23.  The process is killed at any point of a handler and writes to the *)
(* store do not fail: the messages each session has after the restart are  *)
(* the list it held when the process was killed, or that list without its  *)
(* last message.                                                           *)
(***************************************************************************)
C23_RestartLosesAtMostTheLastMessage ==
    [][restart =>
          \A sid \in DOMAIN sessions :
             /\ sid \in DOMAIN sessions'
             /\ PrefixMissingAtMostLast(sessions'[sid].messages,
                                        sessions[sid].messages)]_vars

(***************************************************************************)
(* C24.  In every reachable state each session's last_activity_at is at    *)
(* or after its created_at.  Under the clock of the model, which never     *)
(* goes back, no step of a running process lowers a session's              *)
(* last_activity_at: a step that appends a message to a session sets it to *)
(* the reading of the clock, and every other step leaves it as it is.      *)
(***************************************************************************)
C24_LastActivityFollowsTheClock ==
    /\ [](\A sid \in DOMAIN sessions :
             sessions[sid].created_at <= sessions[sid].last_activity_at)
    /\ [][~restart
          => \A sid \in DOMAIN sessions :
                /\ sid \in DOMAIN sessions'
                /\ sessions[sid].last_activity_at
                      <= sessions'[sid].last_activity_at
                /\ IF sessions'[sid].messages # sessions[sid].messages
                   THEN /\ Len(sessions'[sid].messages)
                              = Len(sessions[sid].messages) + 1
                        /\ sessions'[sid].last_activity_at = clock
                   ELSE sessions'[sid].last_activity_at
                           = sessions[sid].last_activity_at]_vars

\* A session that got a message after the clock had moved on.
C24_Witness ==
    \E sid \in DOMAIN sessions :
       /\ sessions[sid].messages # <<>>
       /\ sessions[sid].created_at < sessions[sid].last_activity_at
       /\ sessions[sid].last_activity_at
             = sessions[sid].messages[Len(sessions[sid].messages)].timestamp

\* What submit_user_text does to the registry and to the handler: one User
\* message with the single part Text(text) at the end of the active session,
\* nothing else in any session, no request, no dispatch, the slot and the
\* cache as before.
SubmitAppendsOneUserMessage(text) ==
    /\ KeepsEarlierMessages
    /\ Len(Appended) = 1
    /\ Appended[1].author = "User"
    /\ Appended[1].parts = <<Text(text)>>
    /\ \A sid \in DOMAIN sessions \ {active_session_id} :
          sessions'[sid] = sessions[sid]
    /\ DOMAIN sessions' = DOMAIN sessions
    /\ pc' = "idle"
    /\ batch' = <<>>
    /\ pending_tool_call_request' = pending_tool_call_request
    /\ tool_session_permissions' = tool_session_permissions

(***************************************************************************)
(* C25.  submit_user_text(text) appends exactly one User message with the  *)
(* single part Text(text) to the active session and persists it: the store *)
(* holds the message afterwards.  It makes no request to the model and     *)
(* leaves the pending slot and the cache as they are.  (App::new always    *)
(* leaves a session active: the case without one does not arise.)          *)
(* The message is appended, but the store does not hold it afterwards:     *)
(* save_session, called right after save_message, replaces the session's   *)
(* row and the cascade deletes the rows of its messages.                   *)
(***************************************************************************)
C25_SubmitAppendsAndPersists ==
    [][\A text \in {"hello"} :
          submit_user_text(text)
          => /\ SubmitAppendsOneUserMessage(text)
             /\ \E row \in db_messages' :
                   /\ row.id = Appended[1].id
                   /\ row.session_id = active_session_id]_vars

\* s is the beginning of t.
IsPrefix(s, t) ==
    /\ Len(s) <= Len(t)
    /\ \A i \in 1..Len(s) : s[i] = t[i]

(***************************************************************************)
(* C26.  An operation changes the message list of a session only by        *)
(* appending at its end: the list before the step is the beginning of the  *)
(* list after it, and no session leaves the registry.  No message id       *)
(* occurs in two sessions or twice in one.                                 *)
(***************************************************************************)
C26_MessagesAreOnlyAppended ==
    /\ [][\A sid \in DOMAIN sessions :
             /\ sid \in DOMAIN sessions'
             /\ IsPrefix(sessions[sid].messages, sessions'[sid].messages)]_vars
    /\ [](\A sid, other \in DOMAIN sessions :
             \A i \in 1..Len(sessions[sid].messages),
                j \in 1..Len(sessions[other].messages) :
                sessions[sid].messages[i].id = sessions[other].messages[j].id
                => (sid = other /\ i = j))

\* Two sessions hold messages, one of them more than one.
C26_Witness ==
    \E sid, other \in DOMAIN sessions :
       /\ sid # other
       /\ Len(sessions[sid].messages) >= 2
       /\ Len(sessions[other].messages) >= 1

(***************************************************************************)
(* C27.  While a process runs, an entry of the permission cache, once      *)
(* written, is neither removed nor changed by any step.  When the process  *)
(* is started again the cache is empty and the pending slot is empty,      *)
(* whatever they held when the old process ended.                          *)
(***************************************************************************)
C27_CacheLivesAsLongAsTheProcess ==
    /\ [][~restart
          => \A key \in DOMAIN tool_session_permissions :
                /\ key \in DOMAIN tool_session_permissions'
                /\ tool_session_permissions'[key] = tool_session_permissions[key]]_vars
    /\ [][restart
          => /\ tool_session_permissions' = <<>>
             /\ pending_tool_call_request' = None]_vars

\* A process has just been started, after one in which the model had
\* asked for a tool: nothing is cached and nothing is pending.
C27_Witness ==
    /\ pc = "started"
    /\ next_call_id > 1
    /\ tool_session_permissions = <<>>
    /\ pending_tool_call_request = None

(***************************************************************************)
(* C28.  With no API key configured, advance() on an active session that   *)
(* holds a message, no call pending, makes no request to the model: it     *)
(* appends exactly one System message that names the error to the active   *)
(* session, leaves the pending slot and the cache as they are, and         *)
(* returns.                                                                *)
(***************************************************************************)
C28_AdvanceWithoutKeyReportsOnce ==
    [][(/\ api_key = None
        /\ pending_tool_call_request = None
        /\ ActiveMessages # <<>>
        /\ advance)
       => /\ pc' = "idle"
          /\ batch' = <<>>
          /\ KeepsEarlierMessages
          /\ Len(Appended) = 1
          /\ Appended[1].author = "System"
          /\ Appended[1].parts = <<Text("Error: OpenAI API key not configured.")>>
          /\ pending_tool_call_request' = None
          /\ tool_session_permissions' = tool_session_permissions
          /\ \A sid \in DOMAIN sessions \ {active_session_id} :
                sessions'[sid] = sessions[sid]]_vars

\* The error stands after the user's text, and the handler has returned.
C28_Witness ==
    /\ api_key = None
    /\ pc = "idle"
    /\ Len(ActiveMessages) >= 2
    /\ ActiveMessages[Len(ActiveMessages) - 1].author = "User"
    /\ ActiveMessages[Len(ActiveMessages)].author = "System"
    /\ ActiveMessages[Len(ActiveMessages)].parts =
          <<Text("Error: OpenAI API key not configured.")>>

(***************************************************************************)
(* C29.  While the store refuses writes (save_message and save_session     *)
(* fail), a handler step stores nothing and goes on as if the writes had   *)
(* succeeded: the message is appended to the session in memory, no System  *)
(* message or other message about the failure is added, the batch goes on  *)
(* to its next tool, and after the last tool the conversation is sent to   *)
(* the model again.                                                        *)
(***************************************************************************)
C29_FailedWriteIsOnlyLogged ==
    [][~db_up
       => /\ db_messages' = db_messages
          /\ db_sessions' = db_sessions
          /\ (\E fs_ok \in BOOLEAN : execute_tool_call(fs_ok))
                => /\ RanHeadOfBatch
                   /\ pc' = IF Len(batch) > 1 THEN "exec" ELSE "send"
          /\ resend => (pc' = "llm" /\ sessions' = sessions)
          /\ (\A text \in {"hello"} :
                submit_user_text(text)
                => /\ KeepsEarlierMessages
                   /\ Len(Appended) = 1
                   /\ Appended[1].author = "User"
                   /\ Appended[1].parts = <<Text(text)>>)
          /\ (\A allow \in BOOLEAN, scope \in Scopes :
                (pending_tool_call_request # None
                 /\ resolve_pending_tool_call(allow, scope))
                => IF allow
                   THEN pc' = "exec" /\ sessions' = sessions
                   ELSE /\ pc' = "send"
                        /\ KeepsEarlierMessages
                        /\ Len(Appended) = 1
                        /\ Appended[1].author = "Tool")]_vars

\* Two tools of a batch ran while the store refused every write (the row of
\* the session is older than both Tool messages), and the conversation was
\* sent to the model again.
C29_Witness ==
    /\ pc = "llm"
    /\ resend_depth >= 1
    /\ Len(ActiveMessages) >= 4
    /\ ActiveMessages[Len(ActiveMessages)].author = "Tool"
    /\ ActiveMessages[Len(ActiveMessages) - 1].author = "Tool"
    /\ active_session_id \in DOMAIN db_sessions
    /\ parse_from_rfc3339(db_sessions[active_session_id].last_activity_at)
          < ActiveMessages[Len(ActiveMessages) - 1].timestamp

(***************************************************************************)
(* C30.  After App::new the registry holds one session for each row of     *)
(* table sessions.  On a store without sessions a new session is created,  *)
(* saved (the store taking the write) and made active; otherwise the       *)
(* active session is a stored session no other stored session is later     *)
(* than in last_activity_at.  In both cases one session of the registry is *)
(* active.                                                                 *)
(***************************************************************************)
C30_NewAppHasOneActiveSession ==
    [][restart
       => /\ active_session_id' \in DOMAIN sessions'
          /\ IF DOMAIN db_sessions = {}
             THEN /\ DOMAIN sessions' = {active_session_id'}
                  /\ sessions'[active_session_id'].messages = <<>>
                  /\ db_up => DOMAIN db_sessions' = {active_session_id'}
             ELSE /\ DOMAIN sessions' = DOMAIN db_sessions
                  /\ db_sessions' = db_sessions
                  /\ \A sid \in DOMAIN sessions' :
                        /\ sessions'[sid].id = sid
                        /\ to_rfc3339(sessions'[sid].last_activity_at)
                              = db_sessions[sid].last_activity_at
                        /\ sessions'[sid].last_activity_at
                              <= sessions'[active_session_id'].last_activity_at]_vars

\* A process has just been started on a store of two sessions, and the
\* session that is active is the later of them, though not the newer.
C30_Witness ==
    /\ pc = "started"
    /\ DOMAIN sessions = {1, 2}
    /\ active_session_id = 1
    /\ sessions[2].last_activity_at < sessions[1].last_activity_at

(***************************************************************************)
(* C31.  Whenever a call is pending, the cache holds no decision, Allowed  *)
(* or Denied, for the pending call's tool in the active session; and a     *)
(* step that fills the slot does so for a tool that has no decision in     *)
(* the active session.                                                     *)
(***************************************************************************)
C31_PendingCallHasNoCachedDecision ==
    /\ [](pending_tool_call_request # None
            => Uncached(pending_tool_call_request[1].tool_name))
    /\ [][(pending_tool_call_request = None /\ pending_tool_call_request' # None)
          => /\ Uncached(pending_tool_call_request'[1].tool_name)
             /\ tool_session_permissions' = tool_session_permissions]_vars

\* A call for ls is pending in a session, while ls is Allowed in another.
C31_Witness ==
    /\ pending_tool_call_request # None
    /\ pending_tool_call_request[1].tool_name = "ls"
    /\ \E sid \in DOMAIN sessions \ {active_session_id} :
          /\ <<"ls", sid>> \in DOMAIN tool_session_permissions
          /\ tool_session_permissions[<<"ls", sid>>] = "Allowed"

\* Message i of a list holds a part of this kind for this call id.
HoldsPart(messages, i, kind, call_id) ==
    \E k \in 1..Len(messages[i].parts) :
       /\ messages[i].parts[k].kind = kind
       /\ messages[i].parts[k].id = call_id

\* The call ids of the ToolRequest parts of message i.
RequestIds(messages, i) ==
    { messages[i].parts[k].id :
        k \in { n \in 1..Len(messages[i].parts) :
                  messages[i].parts[n].kind = "ToolRequest" } }

\* Every ToolRequest of the list has a ToolResult in a later message.
EveryRequestAnswered(messages) ==
    \A i \in 1..Len(messages) :
       \A call_id \in RequestIds(messages, i) :
          \E j \in (i + 1)..Len(messages) :
             HoldsPart(messages, j, "ToolResult", call_id)

(***************************************************************************)
(* C32.  Whenever the history of the active session is on its way to the   *)
(* Model Gateway, every ToolRequest part in it has a ToolResult part with  *)
(* the same call id in a later message.  The code answers only the first   *)
(* request of a turn it asks the user about, and a switch of sessions      *)
(* drops the pending call without an answer.                               *)
(***************************************************************************)
C32_SentHistoryAnswersEveryRequest ==
    pc = "llm" => EveryRequestAnswered(ActiveMessages)

\* The sessions whose history holds the ToolRequest of a call.
OwningSessions(call_id) ==
    { sid \in DOMAIN sessions :
        \E i \in 1..Len(sessions[sid].messages) :
           HoldsPart(sessions[sid].messages, i, "ToolRequest", call_id) }

\* A decision "allow for the session" writes Allowed under the session that
\* holds the request.
AllowForSessionGoesToOwner ==
    (pending_tool_call_request # None
       /\ resolve_pending_tool_call(TRUE, Some("Session")))
    => \A sid \in OwningSessions(pending_tool_call_request[1].call_id) :
          LET key == <<pending_tool_call_request[1].tool_name, sid>>
          IN  /\ key \in DOMAIN tool_session_permissions'
              /\ tool_session_permissions'[key] = "Allowed"

\* The Tool message of a call the user allowed is appended to the session
\* that holds the request.
AllowedResultGoesToOwner ==
    (pc = "exec" /\ batch_by = "user" /\ batch # <<>>
       /\ \E fs_ok \in BOOLEAN : execute_tool_call(fs_ok))
    => \A sid \in OwningSessions(Head(batch).id) :
          /\ Len(sessions'[sid].messages) = Len(sessions[sid].messages) + 1
          /\ HoldsPart(sessions'[sid].messages, Len(sessions'[sid].messages),
                       "ToolResult", Head(batch).id)

(***************************************************************************)
(* C33.  resolve_pending_tool_call(true, Session) writes Allowed for the   *)
(* session whose history holds the ToolRequest of the pending call, and    *)
(* the Tool message of the call goes to that session, whatever calls of    *)
(* new_session or switch_session came between request and decision.        *)
(* new_session leaves the pending call in place and the handler works on   *)
(* the session that is active at the decision.                             *)
(***************************************************************************)
C33_SessionAllowGoesToOwningSession ==
    /\ [][AllowForSessionGoesToOwner]_vars
    /\ [][AllowedResultGoesToOwner]_vars

\* The ToolResult parts for one call id, counted over all sessions.
RECURSIVE CountResults(_, _)
CountResults(sids, call_id) ==
    IF sids = {} THEN 0
    ELSE LET sid == CHOOSE x \in sids : TRUE
             messages == sessions[sid].messages
         IN  Cardinality({ i \in 1..Len(messages) :
                             HoldsPart(messages, i, "ToolResult", call_id) })
             + CountResults(sids \ {sid}, call_id)

(***************************************************************************)
(* C34.  The model numbers its calls, so call ids are unique.  Then each   *)
(* call id is handed to the Tool Executor at most once, and has at most    *)
(* one ToolResult message over all sessions: a call that is about to be    *)
(* run has no result yet, no id stands twice in the batch, and no id has   *)
(* two results.                                                            *)
(***************************************************************************)
C34_EachCallRunsAndAnswersOnce ==
    /\ \A call_id \in 1..next_call_id :
          CountResults(DOMAIN sessions, call_id) <= 1
    /\ pc = "exec" =>
          /\ \A i \in 1..Len(batch) :
                CountResults(DOMAIN sessions, batch[i].id) = 0
          /\ \A i, j \in 1..Len(batch) : batch[i].id = batch[j].id => i = j

\* A call of a session was allowed and run after new_session: its result
\* stands in another session than its request, once.
C34_Witness ==
    /\ pc = "idle"
    /\ pending_tool_call_request = None
    /\ \E call_id \in 1..next_call_id :
          /\ CountResults(DOMAIN sessions, call_id) = 1
          /\ OwningSessions(call_id) # {}
          /\ \A sid \in OwningSessions(call_id) :
                CountResults({sid}, call_id) = 0

\* Message j of the list answers a request of the Assistant message i.
Answers(messages, i, j) ==
    /\ i < j
    /\ messages[i].author = "Assistant"
    /\ \E call_id \in RequestIds(messages, i) :
          HoldsPart(messages, j, "ToolResult", call_id)

(***************************************************************************)
(* C35.  In every session's message list, between an Assistant message     *)
(* with ToolRequest parts and a Tool message that answers one of them,     *)
(* only Tool messages stand: no System notice and no User message.  The    *)
(* handler puts the notice of a rejected advance into the session itself,  *)
(* and submit_user_text does not look at the pending call.                 *)
(***************************************************************************)
C35_OnlyToolMessagesUpToTheAnswer ==
    \A sid \in DOMAIN sessions :
       LET messages == sessions[sid].messages
       IN  \A i, j \in 1..Len(messages) :
              Answers(messages, i, j)
              => \A k \in (i + 1)..(j - 1) : messages[k].author = "Tool"

\* Some session holds a ToolResult with this text.
SomeResultSays(output) ==
    \E sid \in DOMAIN sessions :
       \E i \in 1..Len(sessions[sid].messages) :
          \E k \in 1..Len(sessions[sid].messages[i].parts) :
             LET p == sessions[sid].messages[i].parts[k]
             IN  p.kind = "ToolResult" /\ p.output = output

(***************************************************************************)
(* C36.  From the empty cache of a new App, no sequence of advance,        *)
(* resolve_pending_tool_call, submit_user_text, new_session and            *)
(* switch_session stores Denied: no entry of the cache is Denied, and no   *)
(* call was ever denied by the policy of the session, so that every        *)
(* denial in a history is a decision of the user.                          *)
(***************************************************************************)
C36_DeniedIsNeverCached ==
    /\ \A key \in DOMAIN tool_session_permissions :
          tool_session_permissions[key] # "Denied"
    /\ ~SomeResultSays("Tool execution denied by session policy.")

\* The user denied a call, another was allowed for the session and is in
\* the cache.
C36_Witness ==
    /\ SomeResultSays("Tool execution denied by user.")
    /\ tool_session_permissions # <<>>

\* The step belongs to advance, resolve_pending_tool_call or
\* submit_user_text: it starts one of them or goes on inside the handler.
StepOfConversation ==
    \/ advance
    \/ resend
    \/ pc \in {"llm", "exec"}
    \/ \E allow \in BOOLEAN, scope \in Scopes :
          resolve_pending_tool_call(allow, scope)
    \/ \E text \in {"hello"} : submit_user_text(text)

\* The rows the store holds for a session.
RowsOf(session_rows, message_rows, sid) ==
    [session |-> IF sid \in DOMAIN session_rows
                 THEN Some(session_rows[sid]) ELSE None,
     messages |-> { row \in message_rows : row.session_id = sid }]

(***************************************************************************)
(* C37.  A step of advance, resolve_pending_tool_call or submit_user_text  *)
(* changes nothing but the message list and last_activity_at of the        *)
(* active session: the registry holds the same sessions, the same one is   *)
(* active, it keeps its id and created_at, and every other session and     *)
(* the rows stored for it are as before.                                   *)
(***************************************************************************)
C37_OnlyTheActiveSessionChanges ==
    [][StepOfConversation
       => /\ DOMAIN sessions' = DOMAIN sessions
          /\ active_session_id' = active_session_id
          /\ sessions'[active_session_id].id = sessions[active_session_id].id
          /\ sessions'[active_session_id].created_at
                = sessions[active_session_id].created_at
          /\ \A sid \in DOMAIN sessions \ {active_session_id} :
                /\ sessions'[sid] = sessions[sid]
                /\ RowsOf(db_sessions', db_messages', sid)
                      = RowsOf(db_sessions, db_messages, sid)]_vars

\* Two sessions with a conversation each: the later one went on while the
\* other was in the registry.
C37_Witness ==
    /\ pc = "idle"
    /\ Len(ActiveMessages) >= 2
    /\ \E sid \in DOMAIN sessions \ {active_session_id} :
          Len(sessions[sid].messages) >= 2

(***************************************************************************)
(* C38.  In every state after construction the active session id is the    *)
(* id of a session of the registry, and no step of an operation takes a    *)
(* session out of the registry.                                            *)
(***************************************************************************)
C38_ActiveSessionIsRegistered ==
    /\ [](active_session_id \in DOMAIN sessions)
    /\ [][DOMAIN sessions \subseteq DOMAIN sessions']_vars

\* The caller opened a second session and went back to the first.
C38_Witness ==
    /\ Cardinality(DOMAIN sessions) = MaxSessions
    /\ active_session_id = 1
    /\ \E sid \in DOMAIN sessions : sid > active_session_id

\* What a call of switch_session leaves behind, by the id it was given.
SwitchSessionEffect(session_id) ==
    IF session_id \in DOMAIN sessions
    THEN /\ switch_session_result(session_id) = TRUE
         /\ active_session_id' = session_id
    ELSE /\ switch_session_result(session_id) = FALSE
         /\ UNCHANGED <<active_session_id, pending_tool_call_request,
                        tool_session_permissions, sessions>>

(***************************************************************************)
(* C39.  switch_session with an id that is not in the registry returns     *)
(* false and leaves the active session id, the pending slot, the           *)
(* permission cache and all sessions as they are; with an id of the        *)
(* registry it returns true and makes that session the active one.         *)
(***************************************************************************)
C39_SwitchSessionOnlyToKnownIds ==
    [][\A session_id \in 1..(MaxSessions + 1) :
          switch_session(session_id) => SwitchSessionEffect(session_id)]_vars

\* A call is pending and a decision is cached while the registry still
\* lacks an id: switch_session with that id has something to leave alone.
C39_Witness ==
    /\ pc = "idle"
    /\ pending_tool_call_request # None
    /\ tool_session_permissions # <<>>
    /\ (MaxSessions + 1) \notin DOMAIN sessions

====
